---- MODULE Spec2Model ----
(***************************************************************************)
(* A model of go-mask (src/mask.go): the reflective deep copy with mask    *)
(* hooks.  Go values are records, storage is a heap of cells, the          *)
(* recursion of _anything and its copiers is an explicit call stack, and   *)
(* one step of the model is one stretch of a function's code between two   *)
(* calls of _anything.                                                     *)
(***************************************************************************)
EXTENDS Integers, Sequences, FiniteSets, TLC

\* Bound: the deepest nesting of _anything calls before the goroutine stack
\* is taken to be exhausted (Go aborts with a fatal stack overflow).
MaxDepth == 9

\* Bound: the largest number of elements of an input slice, array or map.
MaxLen == 2

(***************************************************************************)
(* Types.  A type is its written name.  The universe holds the types of    *)
(* the test file and what the handlers need: atomic types with and without *)
(* a hook, a record with a pointer-receiver hook, pointers, a slice, a     *)
(* map, arrays (unnamed and named), the empty interface, and func.         *)
(***************************************************************************)
Kind(t) ==
    CASE t \in {"string", "TestString", "BadMask"} -> "String"
      [] t = "func()" -> "Func"
      [] t = "any" -> "Interface"
      [] t \in {"*Node", "*string", "*any"} -> "Ptr"
      [] t = "[]any" -> "Slice"
      [] t = "map[any]any" -> "Map"
      [] t \in {"[N]any", "[1]string", "SecretArr"} -> "Array"
      [] t = "Node" -> "Struct"
      [] OTHER -> "Invalid"

\* reflect.Type.Elem
Elem(t) ==
    CASE t = "*Node" -> "Node"
      [] t = "*string" -> "string"
      [] t \in {"[1]string", "SecretArr"} -> "string"
      [] OTHER -> "any"

\* reflect.ArrayOf(size, t.Elem()): always the unnamed array type
ArrayOf(t) == IF t = "SecretArr" THEN "[1]string" ELSE t

\* The record type of the model:
\*   type Node struct { Value string; Next *Node; Any interface{}; priv interface{} }
\*   func (n *Node) MaskXXX() { n.Value = "MASKED" }
Fields(t) ==
    IF t = "Node"
    THEN << [name |-> "Value", type |-> "string", exported |-> TRUE],
            [name |-> "Next",  type |-> "*Node",  exported |-> TRUE],
            [name |-> "Any",   type |-> "any",    exported |-> TRUE],
            [name |-> "priv",  type |-> "any",    exported |-> FALSE] >>
    ELSE << >>

MASKED == "MASKED"

\* tp.MethodByName("MaskXXX") on a non-pointer type: the value method set.
\*   func (t TestString) MaskXXX() TestString
\*   func (a SecretArr) MaskXXX() SecretArr
\*   func (b BadMask) MaskXXX()            (no result: a Masker by value)
\* Node declares MaskXXX on *Node only, so Node's method set is empty.
Method(t) ==
    CASE t = "TestString" -> [ok |-> TRUE, numOut |-> 1, outName |-> "TestString"]
      [] t = "SecretArr"  -> [ok |-> TRUE, numOut |-> 1, outName |-> "SecretArr"]
      [] t = "BadMask"    -> [ok |-> TRUE, numOut |-> 0, outName |-> ""]
      [] OTHER            -> [ok |-> FALSE, numOut |-> 0, outName |-> ""]

\* tp.Name(): the empty string for an unnamed (composite literal) type
Name(t) == IF t \in {"string", "TestString", "BadMask", "SecretArr", "Node", "any"}
           THEN t ELSE ""

\* tp.Implements(maskerTpPtr): MaskXXX() with no parameter and no result
Implements(t) == t \in {"*Node", "BadMask"}

(***************************************************************************)
(* Values.  Every value is a record of one shape:                          *)
(*   k  the reflect.Kind ("Invalid" for the nil interface)                 *)
(*   t  the dynamic type                                                   *)
(*   s  an atomic value's content; for a pointer, "" or the name of the    *)
(*      field of the pointee record it points into (&n.Value)              *)
(*   n  the address of the storage a pointer, slice or map refers to       *)
(*      (0: nil)                                                           *)
(*   e  the elements of an array, the fields of a record, and for a map    *)
(*      object in a heap cell its entries <<key, value>>                   *)
(***************************************************************************)
Val(k, t, s, n, e) == [k |-> k, t |-> t, s |-> s, n |-> n, e |-> e]

Nil == Val("Invalid", "", "", 0, << >>)
Str(t, s) == Val("String", t, s, 0, << >>)
Fn == Val("Func", "func()", "", 0, << >>)
Ptr(t, a) == Val("Ptr", t, "", a, << >>)
FieldPtr(a) == Val("Ptr", "*string", "Value", a, << >>)
Slice(a) == Val("Slice", "[]any", "", a, << >>)
Map(a) == Val("Map", "map[any]any", "", a, << >>)
Arr(t, e) == Val("Array", t, "", 0, e)
Node(value, next, any, priv) == Val("Struct", "Node", "", 0, <<value, next, any, priv>>)

IsValid(v) == v.k # "Invalid"
IsNil(v) == v.n = 0

\* reflect.Zero(t) / the content of freshly allocated storage of type t
Zero(t) ==
    CASE Kind(t) = "String" -> Str(t, "")
      [] Kind(t) = "Ptr" -> Ptr(t, 0)
      [] Kind(t) = "Slice" -> Val("Slice", t, "", 0, << >>)
      [] Kind(t) = "Map" -> Val("Map", t, "", 0, << >>)
      [] Kind(t) = "Func" -> Fn
      [] t \in {"[1]string", "SecretArr"} -> Arr(t, << Str("string", "") >>)
      [] t = "Node" -> Node(Str("string", ""), Ptr("*Node", 0), Nil, Nil)
      [] OTHER -> Nil

\* var out T in Mask[T](x T): the zero value of T, which is the type of x or
\* interface{} (an array type's length is that of x)
ZeroOf(T, x) ==
    IF Kind(T) = "Array" THEN Arr(T, [j \in 1..Len(x.e) |-> Zero(Elem(T))]) ELSE Zero(T)

\* Whether a value of type vt may be Set into storage of static type st
\* (reflect's assignability: identical types, an interface slot, or identical
\* underlying types one of which is unnamed).
Assignable(vt, st) ==
    \/ st = "any"
    \/ vt = st
    \/ {vt, st} = {"[1]string", "SecretArr"}

\* The value as stored into a slot of static type st
Stored(v, st) == IF st = "any" THEN v ELSE [v EXCEPT !.t = st]

(***************************************************************************)
(* State.                                                                  *)
(*   api    the entry point called: "Mask" or "Must"                       *)
(*   arg    the call Mask[T](x): the static type T and the value x         *)
(*   heap0  the storage of the input graph as it was before the call       *)
(*   heap   all storage: cells 1..Len(heap0) are the input's, the rest is  *)
(*          allocated by the call                                          *)
(*   ptrs   the map[uintptr]interface{} of Mask                            *)
(*   stack  the active _anything calls, innermost last                     *)
(*   ret    what the call that returned last returned                      *)
(*   status idle, running, returned (Mask returned), done (Must returned), *)
(*          panic, overflow                                                *)
(*   res    what Mask returned                                             *)
(*   log    history: storage allocated by _pointer ("new"), its content    *)
(*          set ("fill"), hooks invoked ("hook", "xform")                  *)
(***************************************************************************)
VARIABLES api, arg, heap0, heap, ptrs, stack, ret, status, res, log

vars == <<api, arg, heap0, heap, ptrs, stack, ret, status, res, log>>

\* var copiers map[reflect.Kind]copier, as init() fills it
copiers ==
    [k \in {"String", "Array", "Map", "Ptr", "Slice", "Struct"} |->
        CASE k = "String" -> "_primitive"
          [] k = "Array" -> "_array"
          [] k = "Map" -> "_map"
          [] k = "Ptr" -> "_pointer"
          [] k = "Slice" -> "_slice"
          [] k = "Struct" -> "_struct"]

NoRet == [out |-> Nil, err |-> FALSE]

\* One _anything call: fn is the function it is executing (_anything, the
\* copier it dispatched to, or _mask), pc the place in it, and the rest are
\* that function's locals (rem: the map entries MapRange has yet to yield).
Frame(x) == [fn |-> "_anything", x |-> x, pc |-> "start", i |-> 0,
             dc |-> Nil, item |-> Nil, rem |-> {}]

Top == stack[Len(stack)]

\* The state as a record, and the ways a step changes it
Cur == [heap |-> heap, ptrs |-> ptrs, stack |-> stack, ret |-> ret,
        status |-> status, log |-> log]

Apply(eff) ==
    /\ heap' = eff.heap
    /\ ptrs' = eff.ptrs
    /\ stack' = eff.stack
    /\ ret' = eff.ret
    /\ status' = eff.status
    /\ log' = eff.log
    /\ UNCHANGED <<api, arg, heap0, res>>

\* go on in the same call
Cont(st, f) == [st EXCEPT !.stack = [st.stack EXCEPT ![Len(st.stack)] = f]]

\* return out, nil
Return(st, out) ==
    [st EXCEPT !.stack = SubSeq(st.stack, 1, Len(st.stack) - 1),
               !.ret = [out |-> out, err |-> FALSE]]

\* return nil, err
Fail(st) ==
    [st EXCEPT !.stack = SubSeq(st.stack, 1, Len(st.stack) - 1),
               !.ret = [out |-> Nil, err |-> TRUE]]

\* a run-time panic unwinds every call: nothing recovers it
Panic(st) == [st EXCEPT !.stack = << >>, !.status = "panic"]

\* item, err := _anything(y, ptrs), with f the caller's frame while it waits
Call(st, f, y) ==
    IF Len(st.stack) >= MaxDepth
    THEN [st EXCEPT !.stack = << >>, !.status = "overflow"]
    ELSE [st EXCEPT !.stack = Append([st.stack EXCEPT ![Len(st.stack)] = f], Frame(y))]

\* out, err := c(x, ptrs) returned (out, nil): _anything goes on to _mask(out)
Copied(st, f, out) == Cont(st, [f EXCEPT !.fn = "_mask", !.pc = "start", !.dc = out])

Running(fn) == status = "running" /\ stack # << >> /\ Top.fn = fn

\* func _anything, up to the call of the copier
_anything ==
    /\ Running("_anything")
    /\ LET f == Top IN
       Apply(IF ~IsValid(f.x) THEN Return(Cur, f.x)
             ELSE IF f.x.k \in DOMAIN copiers
                  THEN Cont(Cur, [f EXCEPT !.fn = copiers[f.x.k], !.pc = "start"])
                  ELSE Fail(Cur))

\* func _primitive
_primitive ==
    /\ Running("_primitive")
    /\ LET f == Top IN
       Apply(IF f.x.k \in {"Array", "Chan", "Func", "Interface", "Map", "Ptr",
                           "Slice", "Struct", "UnsafePointer"}
             THEN Fail(Cur)
             ELSE Copied(Cur, f, f.x))

\* v.Len() of a slice or map value, and its elements / entries
Size(h, x) == IF x.n = 0 THEN 0 ELSE Len(h[x.n].e)

\* the for loop of _slice at index f.i: the next element, or the return
SliceLoop(st, f) ==
    IF f.i < Size(st.heap, f.x)
    THEN Call(st, [f EXCEPT !.pc = "ret"], st.heap[f.x.n].e[f.i + 1])
    ELSE Copied(st, f, f.dc)

\* _slice up to its first call of _anything: reflect.MakeSlice(t, size, size)
\* allocates a backing array, also for a nil slice (size 0)
SliceStart(st, f) ==
    IF f.x.k # "Slice" THEN Fail(st)
    ELSE LET size == Size(st.heap, f.x)
             a == Len(st.heap) + 1
             backing == Arr("[N]any", [j \in 1..size |-> Zero(Elem(f.x.t))])
         IN SliceLoop([st EXCEPT !.heap = Append(@, backing)],
                      [f EXCEPT !.dc = Val("Slice", f.x.t, "", a, << >>), !.i = 0])

\* _slice after _anything returned: if iv.IsValid() { dc.Index(i).Set(iv) }
SliceRet(st, f) ==
    LET iv == st.ret.out IN
    IF st.ret.err THEN Fail(st)
    ELSE IF IsValid(iv) /\ ~Assignable(iv.t, Elem(f.x.t)) THEN Panic(st)
    ELSE SliceLoop(IF IsValid(iv)
                   THEN [st EXCEPT !.heap[f.dc.n].e[f.i + 1] = Stored(iv, Elem(f.x.t))]
                   ELSE st,
                   [f EXCEPT !.i = f.i + 1])

\* func _slice
_slice ==
    /\ Running("_slice")
    /\ Apply(IF Top.pc = "start" THEN SliceStart(Cur, Top) ELSE SliceRet(Cur, Top))

\* the for loop of _array at index f.i
ArrayLoop(st, f) ==
    IF f.i < Len(f.x.e)
    THEN Call(st, [f EXCEPT !.pc = "ret"], f.x.e[f.i + 1])
    ELSE Copied(st, f, f.dc)

\* _array up to its first call of _anything:
\* dc := reflect.New(reflect.ArrayOf(size, t.Elem())).Elem()
ArrayStart(st, f) ==
    IF f.x.k # "Array" THEN Fail(st)
    ELSE ArrayLoop(st, [f EXCEPT !.i = 0,
                           !.dc = Arr(ArrayOf(f.x.t),
                                      [j \in 1..Len(f.x.e) |-> Zero(Elem(f.x.t))])])

\* _array after _anything returned: dc.Index(i).Set(reflect.ValueOf(item)),
\* which panics on the zero Value and on a value that is not assignable
ArrayRet(st, f) ==
    LET item == st.ret.out IN
    IF st.ret.err THEN Fail(st)
    ELSE IF ~IsValid(item) \/ ~Assignable(item.t, Elem(f.x.t)) THEN Panic(st)
    ELSE ArrayLoop(st, [f EXCEPT !.dc.e[f.i + 1] = Stored(item, Elem(f.x.t)),
                                 !.i = f.i + 1])

\* func _array
_array ==
    /\ Running("_array")
    /\ Apply(IF Top.pc = "start" THEN ArrayStart(Cur, Top) ELSE ArrayRet(Cur, Top))

\* the for loop of _struct after field f.i: fields with a PkgPath are skipped
StructLoop(st, f) ==
    LET fs == Fields(f.x.t)
        todo == {j \in (f.i + 1)..Len(fs) : fs[j].exported}
    IN  IF todo = {} THEN Copied(st, f, f.dc)
        ELSE LET j == CHOOSE m \in todo : \A o \in todo : m <= o
             IN  Call(st, [f EXCEPT !.pc = "ret", !.i = j], f.x.e[j])

\* _struct up to its first call of _anything: dc := reflect.New(t)
StructStart(st, f) ==
    IF f.x.k # "Struct" THEN Fail(st)
    ELSE StructLoop(st, [f EXCEPT !.i = 0, !.dc = Zero(f.x.t)])

\* _struct after _anything returned: dc.Elem().Field(i).Set(reflect.ValueOf(item))
StructRet(st, f) ==
    LET item == st.ret.out
        ft == Fields(f.x.t)[f.i].type
    IN  IF st.ret.err THEN Fail(st)
        ELSE IF ~IsValid(item) \/ ~Assignable(item.t, ft) THEN Panic(st)
        ELSE StructLoop(st, [f EXCEPT !.dc.e[f.i] = Stored(item, ft)])

\* func _struct
_struct ==
    /\ Running("_struct")
    /\ Apply(IF Top.pc = "start" THEN StructStart(Cur, Top) ELSE StructRet(Cur, Top))

\* dc.SetMapIndex(key, elem) on the map object m: the zero Value as elem
\* deletes the key
SetMapIndex(m, key, elem) ==
    LET at == {j \in 1..Len(m.e) : m.e[j][1] = key} IN
    IF ~IsValid(elem)
    THEN [m EXCEPT !.e = SelectSeq(m.e, LAMBDA kv : kv[1] # key)]
    ELSE IF at = {} THEN [m EXCEPT !.e = Append(m.e, <<key, elem>>)]
    ELSE [m EXCEPT !.e = [j \in 1..Len(m.e) |->
                            IF j \in at THEN <<key, elem>> ELSE m.e[j]]]

\* for iter.Next(): entry j is the one MapRange yields next (any of f.rem)
MapLoop(st, f, j) ==
    IF f.rem = {} THEN Copied(st, f, f.dc)
    ELSE Call(st, [f EXCEPT !.pc = "retval", !.i = j, !.rem = f.rem \ {j}],
              st.heap[f.x.n].e[j][2])

\* _map up to its first call of _anything: reflect.MakeMapWithSize(t, v.Len())
MapStart(st, f, j) ==
    IF f.x.k # "Map" THEN Fail(st)
    ELSE LET a == Len(st.heap) + 1 IN
         MapLoop([st EXCEPT !.heap = Append(@, Val("Map", f.x.t, "", 0, << >>))],
                 [f EXCEPT !.dc = Val("Map", f.x.t, "", a, << >>),
                           !.rem = 1..Size(st.heap, f.x)], j)

\* _map after the value's copy returned: the key is copied next
MapRetVal(st, f) ==
    IF st.ret.err THEN Fail(st)
    ELSE Call(st, [f EXCEPT !.pc = "retkey", !.item = st.ret.out],
              st.heap[f.x.n].e[f.i][1])

\* _map after the key's copy returned:
\* dc.SetMapIndex(reflect.ValueOf(k), reflect.ValueOf(item))
MapRetKey(st, f, j) ==
    LET k == st.ret.out IN
    IF st.ret.err THEN Fail(st)
    ELSE IF ~IsValid(k) THEN Panic(st)
    ELSE MapLoop([st EXCEPT !.heap[f.dc.n] = SetMapIndex(@, k, f.item)], f, j)

\* the entries MapRange may yield next when the step reaches iter.Next()
MapChoices(f) ==
    LET rem == IF f.pc = "start" THEN 1..Size(heap, f.x) ELSE f.rem IN
    IF f.pc = "retval" \/ rem = {} THEN {0} ELSE rem

\* func _map
_map ==
    /\ Running("_map")
    /\ \E j \in MapChoices(Top) :
         Apply(CASE Top.pc = "start" -> MapStart(Cur, Top, j)
                 [] Top.pc = "retval" -> MapRetVal(Cur, Top)
                 [] OTHER -> MapRetKey(Cur, Top, j))

\* v.Elem().Interface() of a non-nil pointer
Deref(h, p) == IF p.s = "" THEN h[p.n] ELSE h[p.n].e[1]

\* the registry with ptrs[addr] = dc
Put(m, addr, dc) == [a \in DOMAIN m \cup {addr} |-> IF a = addr THEN dc ELSE m[a]]

Event(ev, a) == [ev |-> ev, a |-> a]

\* _pointer without the lookup "if dc, ok := ptrs[addr]; ok": every pointer
\* met is copied anew
PointerStart_NoLookup(st, f) ==
    IF f.x.k # "Ptr" THEN Fail(st)
    ELSE IF IsNil(f.x) THEN Copied(st, f, Zero(f.x.t))
    ELSE LET a == Len(st.heap) + 1
             dc == Ptr(f.x.t, a)
         IN  Call([st EXCEPT !.heap = Append(@, Zero(Elem(f.x.t))),
                             !.ptrs = Put(@, f.x.n, dc),
                             !.log = Append(@, Event("new", a))],
                  [f EXCEPT !.pc = "ret", !.dc = dc],
                  Deref(st.heap, f.x))

\* _pointer returning the pointer it was given: a shallow copy
PointerStart_Shallow(st, f) ==
    IF f.x.k # "Ptr" THEN Fail(st)
    ELSE Copied(st, f, f.x)

\* _pointer up to its call of _anything.  v.Pointer() is the address as a
\* number: a pointer to a record and a pointer to its first field (offset 0)
\* have the same one.
PointerStart(st, f) ==
    IF f.x.k # "Ptr" THEN Fail(st)
    ELSE IF IsNil(f.x) THEN Copied(st, f, Zero(f.x.t))
    ELSE LET addr == f.x.n IN
         IF addr \in DOMAIN st.ptrs THEN Copied(st, f, st.ptrs[addr])
         ELSE LET a == Len(st.heap) + 1
                  dc == Ptr(f.x.t, a)
              IN  Call([st EXCEPT !.heap = Append(@, Zero(Elem(f.x.t))),
                                  !.ptrs = Put(@, addr, dc),
                                  !.log = Append(@, Event("new", a))],
                       [f EXCEPT !.pc = "ret", !.dc = dc],
                       Deref(st.heap, f.x))

\* _pointer after _anything returned: if iv.IsValid() { dc.Elem().Set(...) }
PointerRet(st, f) ==
    LET iv == st.ret.out
        et == Elem(f.dc.t)
    IN  IF st.ret.err THEN Fail(st)
        ELSE IF IsValid(iv) /\ ~Assignable(iv.t, et) THEN Panic(st)
        ELSE Copied([st EXCEPT !.heap[f.dc.n] = IF IsValid(iv) THEN Stored(iv, et) ELSE @,
                               !.log = Append(@, Event("fill", f.dc.n))],
                    f, f.dc)

\* func _pointer
_pointer ==
    /\ Running("_pointer")
    /\ Apply(IF Top.pc = "start" THEN PointerStart(Cur, Top) ELSE PointerRet(Cur, Top))

\* func (n *Node) MaskXXX() { n.Value = "MASKED" }, called through p
MutatingHook(st, p) ==
    [st EXCEPT !.heap[p.n].e[1] = Str("string", MASKED),
               !.log = Append(@, Event("hook", p.n))]

\* func (t T) MaskXXX() T { return <the sentinel of T> }
TransformingHook(x) ==
    IF x.k = "Array" THEN Arr(x.t, << Str("string", MASKED) >>) ELSE Str(x.t, MASKED)

\* func _mask, on the copy the copier returned, and the return of _anything
MaskStep(st, f) ==
    LET x == f.dc
        method == Method(x.t)
    IN  IF ~IsValid(x) THEN Panic(st)
        ELSE IF x.k = "Ptr"
        THEN IF IsNil(x) THEN Return(st, x)
             ELSE IF ~Implements(x.t) THEN Return(st, x)
             ELSE Return(MutatingHook(st, x), x)
        ELSE IF ~method.ok THEN Return(st, x)
        ELSE IF method.numOut # 1 THEN Fail(st)
        ELSE IF method.outName # Name(x.t) THEN Fail(st)
        ELSE Return([st EXCEPT !.log = Append(@, Event("xform", 0))],
                    TransformingHook(x))

_mask ==
    /\ Running("_mask")
    /\ Apply(MaskStep(Cur, Top))

\* func Mask, up to its call of _anything: a fresh registry
Mask ==
    /\ status = "idle"
    /\ status' = "running"
    /\ ptrs' = << >>
    /\ stack' = << Frame(arg.x) >>
    /\ UNCHANGED <<api, arg, heap0, heap, ret, res, log>>

\* what Mask returns from (out, err) of _anything: the zero value of T on an
\* error or a nil out, else out.(T), a type assertion that panics when the
\* dynamic type of out is not T
MaskResult(T, r) ==
    IF r.err \/ ~IsValid(r.out) THEN [out |-> ZeroOf(T, arg.x), err |-> r.err, panic |-> FALSE]
    ELSE IF T = "any" \/ r.out.t = T THEN [out |-> r.out, err |-> FALSE, panic |-> FALSE]
    ELSE [out |-> Nil, err |-> FALSE, panic |-> TRUE]

\* func Mask, after _anything returned
MaskReturn ==
    /\ status = "running"
    /\ stack = << >>
    /\ LET r == MaskResult(arg.T, ret) IN
       /\ status' = IF r.panic THEN "panic" ELSE "returned"
       /\ res' = [out |-> r.out, err |-> r.err]
    /\ UNCHANGED <<api, arg, heap0, heap, ptrs, stack, ret, log>>

\* func Must, after Mask returned: if err != nil { panic(err) }
Must ==
    /\ api = "Must"
    /\ status = "returned"
    /\ status' = IF res.err THEN "panic" ELSE "done"
    /\ UNCHANGED <<api, arg, heap0, heap, ptrs, stack, ret, res, log>>

(***************************************************************************)
(* Inputs.  The input graph lives in five cells:                           *)
(*   1, 2  two Node variables n1, n2       3  the backing array of a slice *)
(*   4     a map                           5  an interface{} variable      *)
(* and a value is built from the leaves below, which refer to those cells. *)
(* Each family varies the argument or one cell and keeps the others at a   *)
(* default content.                                                        *)
(***************************************************************************)
Secrets == {Str("TestString", "v1"), Str("TestString", "v2")}

NodePtrs == {Ptr("*Node", 0), Ptr("*Node", 1), Ptr("*Node", 2)}

Leaves ==
    {Nil, Str("string", "v1"), Fn, Str("BadMask", "v1"),
     Arr("SecretArr", << Str("string", "v1") >>),
     FieldPtr(1), Ptr("*any", 5), Slice(0), Slice(3), Map(0), Map(4)}
    \cup Secrets \cup NodePtrs

\* the leaves that fill containers of more than one element
PairLeaves ==
    {Nil, Fn, Str("TestString", "v1"), Ptr("*Node", 1), Ptr("*Node", 2), FieldPtr(1)}

KeySeq == << Str("string", "k"), Str("TestString", "v1"), Str("TestString", "v2"), Nil >>

SeqsUpTo(S, lo, hi) == UNION {[1..n -> S] : n \in lo..hi}

N1(next, any, priv) == Node(Str("string", "v1"), next, any, priv)
N2(next, any) == Node(Str("string", "v2"), next, any, Nil)
Backing(elems) == Arr("[N]any", elems)
MapObj(entries) == Val("Map", "map[any]any", "", 0, entries)

\* the map object with the keys KeySeq[j], j in I, and the values vf[j]
Entries(I, vf) ==
    LET all == [j \in 1..Len(KeySeq) |-> <<KeySeq[j], IF j \in I THEN vf[j] ELSE Nil, j \in I>>]
        kept == SelectSeq(all, LAMBDA en : en[3])
    IN  [j \in 1..Len(kept) |-> <<kept[j][1], kept[j][2]>>]

Cells(n1, n2, s3, m4, a5) == <<n1, n2, Backing(s3), MapObj(m4), a5>>

DefaultS3 == << Str("string", "v1") >>
DefaultM4 == << <<Str("string", "k"), Str("string", "v1")>> >>
DefaultA5 == Str("TestString", "v1")

Input(x, h) == [x |-> x, heap |-> h]

\* the argument varies: a leaf, an array of leaves, a Node by value
ByValue ==
    {Input(x, Cells(N1(p1, Nil, Nil), N2(p2, Nil), DefaultS3, DefaultM4, DefaultA5)) :
        x \in Leaves \cup {Arr("[N]any", e) : e \in SeqsUpTo(PairLeaves, 1, MaxLen)},
        p1 \in NodePtrs, p2 \in NodePtrs}
    \cup
    {Input(Node(Str("string", "v1"), p, a, q),
           Cells(N1(Ptr("*Node", 0), Nil, Nil), N2(Ptr("*Node", 0), Nil),
                 DefaultS3, DefaultM4, DefaultA5)) :
        p \in NodePtrs, a \in Leaves, q \in {Nil, Fn}}

\* the slice's elements vary
Slices ==
    {Input(Slice(3), Cells(N1(p1, Nil, Nil), N2(Ptr("*Node", 0), Nil), e,
                           DefaultM4, DefaultA5)) :
        e \in SeqsUpTo(PairLeaves, 0, MaxLen) \cup [1..1 -> Leaves], p1 \in NodePtrs}

\* the map's entries vary
Maps ==
    {Input(Map(4), Cells(N1(p1, Nil, Nil), N2(Ptr("*Node", 0), Nil), DefaultS3,
                         Entries(I, vf), DefaultA5)) :
        I \in {J \in SUBSET (1..Len(KeySeq)) : Cardinality(J) <= MaxLen},
        vf \in [1..Len(KeySeq) -> PairLeaves], p1 \in NodePtrs}
    \cup
    {Input(Map(4), Cells(N1(Ptr("*Node", 0), Nil, Nil), N2(Ptr("*Node", 0), Nil), DefaultS3,
                         << <<k, v>> >>, DefaultA5)) :
        k \in {KeySeq[j] : j \in 1..Len(KeySeq)}, v \in Leaves}

\* the Nodes vary: n1 reached through a pointer, alone or twice
Nodes ==
    {Input(x, Cells(N1(p1, a1, q1), N2(p2, a2), DefaultS3, DefaultM4, DefaultA5)) :
        x \in {Ptr("*Node", 1), Arr("[N]any", <<Ptr("*Node", 1), Ptr("*Node", 1)>>)},
        p1 \in NodePtrs, a1 \in Leaves, q1 \in {Nil, Fn, Ptr("*Node", 2)},
        p2 \in NodePtrs, a2 \in {Nil, FieldPtr(1)}}

\* the interface{} variable varies
Anys ==
    {Input(Ptr("*any", 5), Cells(N1(Ptr("*Node", 1), Nil, Nil), N2(Ptr("*Node", 0), Nil),
                                 DefaultS3, DefaultM4, a)) :
        a \in Leaves}

Inputs == ByValue \cup Slices \cup Maps \cup Nodes \cup Anys

\* Mask[T](x): T is the type of x, or interface{}
Init ==
    /\ api \in {"Mask", "Must"}
    /\ \E in \in Inputs :
         /\ heap0 = in.heap
         /\ heap = in.heap
         /\ arg \in {[T |-> T, x |-> in.x] : T \in {"any"} \cup ({in.x.t} \ {""})}
    /\ ptrs = << >>
    /\ stack = << >>
    /\ ret = NoRet
    /\ status = "idle"
    /\ res = NoRet
    /\ log = << >>

Next ==
    \/ Mask
    \/ _anything
    \/ _primitive
    \/ _slice
    \/ _array
    \/ _struct
    \/ _map
    \/ _pointer
    \/ _mask
    \/ MaskReturn
    \/ Must

Spec == Init /\ [][Next]_vars

(***************************************************************************)
(* Reading a finished call: the input graph (in heap0) and the copy (in    *)
(* heap) walked side by side, position by position.                        *)
(***************************************************************************)
OrigAddrs == 1..Len(heap0)

Terminal == status \in {"returned", "done", "panic", "overflow"}

\* Mask (and Must, when it was the one called) has handed a copy back
ReturnedCopy ==
    /\ status \in {"returned", "done"}
    /\ ~res.err

Missing == Val("Missing", "", "", 0, << >>)

\* m[key] of a map object, Missing when the map has no such key
Lookup(m, key) ==
    LET at == {j \in 1..Len(m.e) : m.e[j][1] = key} IN
    IF at = {} THEN Missing ELSE m.e[CHOOSE j \in at : TRUE][2]

\* Sentinel-returning transforming hooks are declared by these types
HookTypes == {"TestString", "SecretArr"}

\* the copy of the key of a map entry: the key itself, or its type's sentinel
KeyCopy(key) == IF key.t \in HookTypes THEN TransformingHook(key) ELSE key

\* The positions directly inside position <<o, c>> (o of the input, c of the
\* copy): pointees, elements, fields (every field, or with visible only the
\* exported ones), the values of map entries whose key's copy is unambiguous.
Kids(o, c, visible) ==
    IF o.k # c.k THEN {}
    ELSE CASE o.k = "Ptr" ->
                IF o.n # 0 /\ c.n # 0 THEN {<<Deref(heap0, o), Deref(heap, c)>>} ELSE {}
           [] o.k = "Slice" ->
                IF o.n # 0 /\ c.n # 0 /\ Len(heap0[o.n].e) = Len(heap[c.n].e)
                THEN {<<heap0[o.n].e[i], heap[c.n].e[i]>> : i \in 1..Len(heap0[o.n].e)}
                ELSE {}
           [] o.k = "Map" ->
                IF o.n # 0 /\ c.n # 0
                THEN LET es == heap0[o.n].e
                         one == {i \in 1..Len(es) :
                                   \A j \in 1..Len(es) :
                                     KeyCopy(es[j][1]) = KeyCopy(es[i][1]) => j = i}
                     IN  {<<es[i][2], Lookup(heap[c.n], KeyCopy(es[i][1]))>> : i \in one}
                ELSE {}
           [] o.k \in {"Array", "Struct"} ->
                IF Len(o.e) = Len(c.e)
                THEN {<<o.e[i], c.e[i]>> :
                        i \in {j \in 1..Len(o.e) :
                                 o.k = "Struct" /\ visible => Fields(o.t)[j].exported}}
                ELSE {}
           [] OTHER -> {}

RECURSIVE Close(_, _, _)
Close(frontier, seen, visible) ==
    IF frontier = {} THEN seen
    ELSE Close((UNION {Kids(p[1], p[2], visible) : p \in frontier}) \ (seen \cup frontier),
               seen \cup frontier, visible)

\* every pair <<input value, copy value>> at corresponding positions
Positions(visible) == Close({<<arg.x, res.out>>}, {}, visible)

IsRef(v) == v.k = "Ptr" /\ v.n # 0

\* Equal original references have one and the same fresh copy, over the
\* positions ps
SharingKept(ps) ==
    \A p \in ps : \A q \in ps :
        (IsRef(p[1]) /\ p[1] = q[1]) =>
            /\ p[2] = q[2]
            /\ IsRef(p[2])
            /\ p[2].n \notin OrigAddrs

\* C1 (as stated): when Mask returns a copy, any two reference positions of
\* the input that hold the same reference hold, in the copy, one and the
\* same newly allocated reference, different from every original one.
C1_SharedRefsEveryPosition == ReturnedCopy => SharingKept(Positions(FALSE))

\* C1 (amended): the same, over the positions the traversal visits: those
\* not inside a record field that is not externally visible, whose copy is
\* left at its zero value.
C1_SharedRefsVisiblePositions == ReturnedCopy => SharingKept(Positions(TRUE))

\* x.Next = x, and two elements holding the same reference: the copy is
\* returned with the cycle and the sharing in it
C1_Witness ==
    /\ ReturnedCopy
    /\ arg.x = Arr("[N]any", <<Ptr("*Node", 1), Ptr("*Node", 1)>>)
    /\ heap0[1].e[2] = Ptr("*Node", 1)
    /\ res.out.e[1] = res.out.e[2]
    /\ IsRef(res.out.e[1])
    /\ heap[res.out.e[1].n].e[2] = res.out.e[1]

\* C2: the storage of the input graph is never written, and every mutating
\* hook runs on storage the call allocated, at every moment of a call and
\* however it ends.
C2_SourceUntouched ==
    /\ \A a \in OrigAddrs : heap[a] = heap0[a]
    /\ \A j \in 1..Len(log) : log[j].ev = "hook" => log[j].a \notin OrigAddrs

\* the hook has run on the copy of a Node, which holds the sentinel, and the
\* call has then failed on a func further on
C2_Witness ==
    /\ Terminal
    /\ res.err
    /\ \E j \in 1..Len(log) : log[j].ev = "hook"
    /\ \E a \in (Len(heap0) + 1)..Len(heap) :
         heap[a].t = "Node" /\ heap[a].e[1] = Str("string", MASKED)

(***************************************************************************)
(* Reading the input graph alone.                                          *)
(***************************************************************************)
\* the values directly inside v: with deref the pointee of a pointer too,
\* with visible only the exported fields of a record
Inside(v, deref, visible) ==
    CASE v.k = "Ptr" -> IF deref /\ v.n # 0 THEN {Deref(heap0, v)} ELSE {}
      [] v.k = "Slice" -> IF v.n # 0 THEN {heap0[v.n].e[i] : i \in 1..Len(heap0[v.n].e)} ELSE {}
      [] v.k = "Map" ->
           IF v.n # 0
           THEN {heap0[v.n].e[i][1] : i \in 1..Len(heap0[v.n].e)}
                \cup {heap0[v.n].e[i][2] : i \in 1..Len(heap0[v.n].e)}
           ELSE {}
      [] v.k \in {"Array", "Struct"} ->
           {v.e[i] : i \in {j \in 1..Len(v.e) :
                              v.k = "Struct" /\ visible => Fields(v.t)[j].exported}}
      [] OTHER -> {}

RECURSIVE Below(_, _, _, _)
Below(frontier, seen, deref, visible) ==
    IF frontier = {} THEN seen
    ELSE Below((UNION {Inside(v, deref, visible) : v \in frontier}) \ (seen \cup frontier),
               seen \cup frontier, deref, visible)

\* every value of the input graph; with visible, those the traversal can reach
InputValues(visible) == Below({arg.x}, {}, TRUE, visible)

\* a slice or map that contains itself without a pointer in between
ContainerCycle ==
    \E w \in InputValues(TRUE) :
        /\ w.k \in {"Slice", "Map"}
        /\ w \in Below(Inside(w, FALSE, TRUE), {}, FALSE, TRUE)

\* a pointer into a record (&n.Value) is part of the input
InteriorPointer == \E v \in InputValues(FALSE) : v.k = "Ptr" /\ v.s # ""

\* a map of the input has the nil interface as a key
NilKey ==
    \E m \in InputValues(FALSE) :
        m.k = "Map" /\ m.n # 0 /\ \E i \in 1..Len(heap0[m.n].e) : heap0[m.n].e[i][1] = Nil

\* the call is over, for the caller of api
Finished ==
    \/ status \in {"done", "panic", "overflow"}
    \/ status = "returned" /\ api = "Mask"

\* The recursion bound is reached only by inputs on which the recursion has
\* no end: MaxDepth cuts no call that would return.
DepthSuffices == status = "overflow" => ContainerCycle

\* reflect.DeepEqual at one position, its contents aside
Same(o, c) ==
    /\ o.k = c.k
    /\ o.t = c.t
    /\ o.s = c.s
    /\ (o.n = 0) <=> (c.n = 0)
    /\ Len(o.e) = Len(c.e)
    /\ (o.k = "Slice" /\ o.n # 0 /\ c.n # 0) => Len(heap0[o.n].e) = Len(heap[c.n].e)
    /\ (o.k = "Map" /\ o.n # 0 /\ c.n # 0) =>
          {heap0[o.n].e[i][1] : i \in 1..Len(heap0[o.n].e)}
            = {heap[c.n].e[i][1] : i \in 1..Len(heap[c.n].e)}

\* no hook-declaring type, no record, no func, and none of the inputs of C8,
\* C9 and C10 (absent values, container cycles, pointers into records)
PlainInput ==
    /\ \A v \in InputValues(FALSE) :
         v.t \in {"string", "*string", "*any", "[]any", "map[any]any", "[N]any"}
    /\ ~ContainerCycle
    /\ ~InteriorPointer

\* C3: for an input without hook-declaring types (and with nothing else that
\* makes the call fail) Mask returns, without error, a copy deep-equal to
\* the input; in particular a nil slice stays nil.
C3_DeepEqualCopy ==
    (Finished /\ PlainInput) =>
        /\ ReturnedCopy
        /\ \A p \in Positions(FALSE) : Same(p[1], p[2])

\* no absent value and no pointer into a record: what C8 and C10 are about
TameInput ==
    /\ Nil \notin InputValues(TRUE)
    /\ ~InteriorPointer

\* C4: in the copy Mask returns, every traversed position whose input value
\* is of a type with a sentinel-returning transforming hook holds that
\* sentinel, map keys included.
C4_SentinelEverywhere ==
    (ReturnedCopy /\ TameInput) =>
        \A p \in Positions(TRUE) :
            /\ p[1].t \in HookTypes => p[2] = TransformingHook(p[1])
            /\ (p[1].k = "Map" /\ p[1].n # 0 /\ p[2].k = "Map" /\ p[2].n # 0) =>
                  \A i \in 1..Len(heap0[p[1].n].e) :
                      Lookup(heap[p[2].n], KeyCopy(heap0[p[1].n].e[i][1])) # Missing

HookCount(a) == Cardinality({j \in 1..Len(log) : log[j] = Event("hook", a)})

\* C5: the mutating hook runs at most once on a referenced copy, and exactly
\* once on each by the time Mask returns the copy.
C5_HookOncePerCopy ==
    /\ \A a \in 1..Len(heap) : HookCount(a) <= 1
    /\ ReturnedCopy =>
         \A j \in 1..Len(log) :
             (log[j].ev = "new" /\ heap[log[j].a].t = "Node") => HookCount(log[j].a) = 1

\* C6: a hook runs on a referenced copy only after the copy's content has
\* been stored, and the content is not stored again after the hook ran.
C6_PostOrder ==
    \A j \in 1..Len(log) :
        log[j].ev = "hook" =>
            /\ \E i \in 1..(j - 1) : log[i] = Event("fill", log[j].a)
            /\ \A i \in (j + 1)..Len(log) : log[i] # Event("fill", log[j].a)

\* v is a zero value: no content, no storage, zero elements
RECURSIVE IsZeroValue(_)
IsZeroValue(v) == v.s = "" /\ v.n = 0 /\ \A i \in 1..Len(v.e) : IsZeroValue(v.e[i])

\* v is the zero value of type T
IsZeroOf(v, T) == IsZeroValue(v) /\ v.t = (IF T = "any" THEN "" ELSE T)

\* C7: with a func at a position of the input the traversal can reach, Mask
\* returns the zero value and an error, and Must panics.
C7_FuncFails ==
    (Finished /\ Fn \in InputValues(TRUE)) =>
        IF api = "Must" THEN status = "panic"
        ELSE status = "returned" /\ res.err /\ IsZeroOf(res.out, arg.T)

\* an input with an absent value in it and nothing else that ends the call
\* early: no func, no hook of the wrong signature, no container cycle, no
\* pointer into a record, no nil key
AbsentInput ==
    /\ Nil \in InputValues(TRUE)
    /\ \A v \in InputValues(TRUE) : v.t \notin {"func()", "BadMask"}
    /\ ~ContainerCycle
    /\ ~InteriorPointer
    /\ ~NilKey

\* C8: an absent value at a position of the input is absent at that position
\* of the copy (a map entry with an absent value is still an entry), and the
\* call returns without error and without a panic.
C8_AbsentKept ==
    (Finished /\ AbsentInput) =>
        /\ ReturnedCopy
        /\ \A p \in Positions(TRUE) : p[1] = Nil => p[2] = Nil

\* C9: on every input graph the recursion ends: the call returns a copy or
\* an error and never exhausts the stack.
C9_Terminates == status # "overflow"

\* C10: what _pointer returns to _anything has the type of the pointer it
\* was given.
C10_PointerCopyType ==
    \A i \in 1..Len(stack) :
        (stack[i].fn = "_mask" /\ stack[i].x.k = "Ptr") => stack[i].dc.t = stack[i].x.t

====
